---- MODULE Spec2Model ----
(***************************************************************************)
(* Model of backend/server.py: the Radio-Browser proxy (six route handlers *)
(* over one upstream request forwarder) and the status-check log.          *)
(*                                                                         *)
(* A JSON object received from upstream is a record [vals, bad]: vals maps *)
(* the field names that are present to their values, bad is the set of     *)
(* present fields whose value the declared type cannot accept.             *)
(***************************************************************************)
EXTENDS Integers, Sequences, FiniteSets, TLC

\* ---------------------------------------------------------------- bounds
MaxInvocations == 3
MaxListLen == 2
MaxCountryLen == 2
MaxPosts == 4

\* ------------------------------------------------------ program constants
LimitMin == 1
LimitMax == 100
OffsetMin == 0
HttpOk == 200
TimeoutStatus == 408
UnavailableStatus == 500
NotFoundStatus == 404
ListCap == 1000

RADIO_BROWSER_SERVERS ==
    { "de1.api.radio-browser.info",
      "nl1.api.radio-browser.info",
      "at1.api.radio-browser.info" }

\* ------------------------------------------------------------ input sets
Slots == {"w1", "w2"}
ReshapeSlot == "w1"
LimitInputs == {0, 1, 2, 101}
OffsetInputs == {-1, 0}
StationIds == {"uuid-a", "uuid-zz"}
UpstreamStatuses == {404, 503}
TransportMessages == {"Cannot connect to host"}
ClientNames == {"probe", "ui"}

\* ---------------------------------------------------------------- helpers
Min(a, b) == IF a < b THEN a ELSE b

Without(r, D) == [f \in (DOMAIN r) \ D |-> r[f]]

RECURSIVE SeqsUpTo(_, _)
SeqsUpTo(S, n) ==
    IF n = 0 THEN { <<>> }
    ELSE LET shorter == SeqsUpTo(S, n - 1)
         IN  shorter \cup { Append(q, x) : q \in { p \in shorter : Len(p) = n - 1 }, x \in S }

\* ------------------------------------------------------ models (pydantic)
StationFields ==
    { "stationuuid", "name", "url", "url_resolved", "homepage", "favicon", "tags",
      "country", "countrycode", "state", "language", "languagecodes", "votes",
      "lastchangetime", "codec", "bitrate", "hls", "lastcheckok", "lastchecktime",
      "lastcheckoktime", "lastlocalchecktime", "clicktimestamp", "clickcount",
      "clicktrend", "ssl_error", "geo_lat", "geo_long", "has_extended_info" }

StationRequired == { "stationuuid", "name", "url" }

\* Defaults of the optional fields; "None" stands for Python's None.
StationDefaults ==
    [ url_resolved |-> "None", homepage |-> "None", favicon |-> "None", tags |-> "None",
      country |-> "None", countrycode |-> "None", state |-> "None", language |-> "None",
      languagecodes |-> "None", votes |-> 0, lastchangetime |-> "None", codec |-> "None",
      bitrate |-> 0, hls |-> 0, lastcheckok |-> 1, lastchecktime |-> "None",
      lastcheckoktime |-> "None", lastlocalchecktime |-> "None", clicktimestamp |-> "None",
      clickcount |-> 0, clicktrend |-> 0, ssl_error |-> 0, geo_lat |-> "None",
      geo_long |-> "None", has_extended_info |-> FALSE ]

\* RadioStation(**obj): does validation accept the object?
RadioStationValid(obj) ==
    /\ StationRequired \subseteq DOMAIN obj.vals
    /\ obj.bad \cap StationFields = {}

\* A variant that copies every upstream field, known or not.
RadioStation_KeepUnknown(obj) ==
    [ f \in StationFields \cup DOMAIN obj.vals |->
        IF f \in DOMAIN obj.vals THEN obj.vals[f] ELSE StationDefaults[f] ]

\* RadioStation(**obj): the record built from an accepted object.
RadioStation(obj) ==
    [ f \in StationFields |->
        IF f \in DOMAIN obj.vals THEN obj.vals[f] ELSE StationDefaults[f] ]

CountryFields == { "name", "iso_3166_1", "stationcount" }

CountryValid(obj) ==
    /\ CountryFields \subseteq DOMAIN obj.vals
    /\ obj.bad \cap CountryFields = {}

Country(obj) == [ f \in CountryFields |-> obj.vals[f] ]

GenreFields == { "name", "stationcount" }

\* Genre(name=genre['name'], stationcount=genre['stationcount'])
GenreValid(obj) ==
    /\ GenreFields \subseteq DOMAIN obj.vals
    /\ obj.bad \cap GenreFields = {}

Genre(obj) == [ f \in GenreFields |-> obj.vals[f] ]

\* ------------------------------------------------------ upstream payloads
\* Two complete station objects as the directory serves them, with fields
\* the local schema does not know (changeuuid, serveruuid).
UpstreamStationA ==
    [ url_resolved |-> "http://a.example/stream.mp3",
      homepage |-> "http://a.example", favicon |-> "http://a.example/i.png",
      tags |-> "news", country |-> "United Kingdom", countrycode |-> "GB",
      state |-> "London", language |-> "english", languagecodes |-> "en", votes |-> 7,
      lastchangetime |-> "t1", codec |-> "MP3", bitrate |-> 128, hls |-> 0,
      lastcheckok |-> 1, lastchecktime |-> "t2", lastcheckoktime |-> "t3",
      lastlocalchecktime |-> "t4", clicktimestamp |-> "t5", clickcount |-> 90,
      clicktrend |-> 2, ssl_error |-> 0, geo_lat |-> 51, geo_long |-> 0,
      has_extended_info |-> TRUE,
      stationuuid |-> "uuid-a", name |-> "BBC World Service",
      url |-> "http://a.example/stream", changeuuid |-> "chg-1", serveruuid |-> "srv-1" ]

UpstreamStationB ==
    [ UpstreamStationA EXCEPT !.stationuuid = "uuid-b", !.name = "Radio Paradise",
                              !.url = "http://b.example/stream", !.votes = 3,
                              !.clickcount = 40, !.lastcheckok = 0 ]

\* Sets of fields an upstream object may come without and still be accepted.
DropSets ==
    { {},
      StationFields \ StationRequired,
      {"votes", "lastcheckok", "changeuuid", "serveruuid"} }

\* Accepted objects, objects that lack a required field, and one whose votes
\* value is no integer.
UpstreamStationObjects ==
    { [vals |-> Without(base, D), bad |-> {}] :
          base \in {UpstreamStationA, UpstreamStationB}, D \in DropSets }
    \cup { [vals |-> Without(UpstreamStationA, {"name"}), bad |-> {}],
           [vals |-> Without(UpstreamStationB, {"stationuuid", "url"}), bad |-> {}],
           [vals |-> UpstreamStationA, bad |-> {"votes"}] }

StationLists == SeqsUpTo(UpstreamStationObjects, MaxListLen)

SmallStationLists ==
    { <<>>,
      << [vals |-> UpstreamStationA, bad |-> {}] >>,
      << [vals |-> Without(UpstreamStationB, {"name"}), bad |-> {}] >> }

UpstreamCountry(n, c) == [name |-> n, iso_3166_1 |-> "XX", stationcount |-> c, extra |-> "x"]

UpstreamCountryObjects ==
    LET full == { UpstreamCountry("Germany", c) : c \in {-1, 0, 1, 2} }
    IN  { [vals |-> o, bad |-> {}] : o \in full }
        \cup { [vals |-> Without(o, {"name"}), bad |-> {}] : o \in full }
        \cup { [vals |-> Without(UpstreamCountry("India", 1), {"stationcount"}), bad |-> {}],
               [vals |-> UpstreamCountry("India", 1), bad |-> {"stationcount"}] }

CountryLists == SeqsUpTo(UpstreamCountryObjects, MaxCountryLen)

SmallCountryLists ==
    { <<>>,
      << [vals |-> UpstreamCountry("Germany", 2), bad |-> {}] >>,
      << [vals |-> UpstreamCountry("India", 0), bad |-> {}] >> }

UpstreamGenre(n, c) == [name |-> n, stationcount |-> c]

GenreLists ==
    { <<>>,
      << [vals |-> UpstreamGenre("jazz", 5), bad |-> {}] >>,
      << [vals |-> Without(UpstreamGenre("pop", 9), {"stationcount"}), bad |-> {}] >> }

\* What the click endpoint /json/url/{uuid} of the directory answers.
ClickBodies == { << [vals |-> [ok |-> "true", message |-> "retrieved station url"], bad |-> {}] >> }

\* One upstream outcome of the GET: a 200 with a JSON body, a 200 whose body
\* does not decode, another status, a timeout, or no HTTP response at all.
Outcomes(bodies) ==
    { [kind |-> "ok", status |-> HttpOk, body |-> b, msg |-> ""] : b \in bodies }
    \cup { [kind |-> "malformed", status |-> HttpOk, body |-> <<>>, msg |-> "Attempt to decode JSON"] }
    \cup { [kind |-> "status", status |-> st, body |-> <<>>, msg |-> ""] : st \in UpstreamStatuses }
    \cup { [kind |-> "timeout", status |-> 0, body |-> <<>>, msg |-> ""] }
    \cup { [kind |-> "transport", status |-> 0, body |-> <<>>, msg |-> m] : m \in TransportMessages }

NoOutcome == [kind |-> "none", status |-> 0, body |-> <<>>, msg |-> ""]

\* ------------------------------------------------------------- responses
NoFilters == [country |-> "", language |-> "", name |-> "", tag |-> ""]
FilterInputs == { NoFilters, [NoFilters EXCEPT !.name = "BBC"] }

NoReq == [route |-> "none", limit |-> 0, offset |-> 0, filters |-> NoFilters, station_uuid |-> ""]
NoResp == [status |-> 0, body |-> <<>>, detail |-> ""]

\* An HTTPException leaving a handler: FastAPI answers with its status and detail.
ErrorResponse(status, detail) == [status |-> status, body |-> <<>>, detail |-> detail]

\* FastAPI's answer to a request whose Query parameters fail validation.
ValidationError == ErrorResponse(422, "validation error")

\* FastAPI's answer when any other exception leaves a handler
\* (pydantic ValidationError, KeyError, TypeError).
InternalServerError == ErrorResponse(500, "Internal Server Error")

OkResponse(body) == [status |-> HttpOk, body |-> body, detail |-> ""]

\* ------------------------------------------------- upstream forwarder
get_random_server(host) == "https://" \o host

NoExc == [status |-> 0, detail |-> "", class |-> "none"]

\* The body of the try block: the value returned, or the exception raised in it.
TryBody(o) ==
    CASE o.kind = "ok" ->
           [raised |-> FALSE, value |-> o.body, exc |-> NoExc]
      [] o.kind = "status" ->
           [raised |-> TRUE, value |-> <<>>,
            exc |-> [status |-> o.status,
                     detail |-> "Radio API error: " \o ToString(o.status),
                     class |-> "HTTPException"]]
      [] o.kind = "timeout" ->
           [raised |-> TRUE, value |-> <<>>,
            exc |-> [status |-> 0, detail |-> "", class |-> "TimeoutError"]]
      [] o.kind = "transport" ->
           [raised |-> TRUE, value |-> <<>>,
            exc |-> [status |-> 0, detail |-> o.msg, class |-> "ClientConnectorError"]]
      [] o.kind = "malformed" ->
           [raised |-> TRUE, value |-> <<>>,
            exc |-> [status |-> 0, detail |-> o.msg, class |-> "ContentTypeError"]]

\* str(e)
ExcStr(e) ==
    IF e.class = "HTTPException" THEN ToString(e.status) \o ": " \o e.detail ELSE e.detail

ForwarderOk(json) == [ok |-> TRUE, status |-> HttpOk, detail |-> "", json |-> json]
ForwarderRaise(status, detail) == [ok |-> FALSE, status |-> status, detail |-> detail, json |-> <<>>]

\* A variant that tries the catch-all clause before the timeout clause.
make_radio_browser_request_CatchAllFirst(o) ==
    LET r == TryBody(o)
    IN  IF ~r.raised THEN ForwarderOk(r.value)
        ELSE ForwarderRaise(UnavailableStatus, "Radio API error: " \o ExcStr(r.exc))

\* make_radio_browser_request after the GET has completed with outcome o: the
\* except clauses are tried in order, and every exception class that can be
\* raised in the try block, HTTPException included, is an Exception.
make_radio_browser_request(o) ==
    LET r == TryBody(o)
    IN  IF ~r.raised THEN ForwarderOk(r.value)
        ELSE IF r.exc.class = "TimeoutError"
             THEN ForwarderRaise(TimeoutStatus, "Radio API timeout")
             ELSE ForwarderRaise(UnavailableStatus, "Radio API error: " \o ExcStr(r.exc))

\* A variant that asks a second mirror as well.
IssueGet_Twice(sent, host, endpoint, params) ==
    LET call == [endpoint |-> endpoint, params |-> params, server |-> get_random_server(host)]
    IN  Append(Append(sent, call), call)

\* make_radio_browser_request up to its await: one session.get to the chosen server.
IssueGet(sent, host, endpoint, params) ==
    Append(sent, [endpoint |-> endpoint, params |-> params, server |-> get_random_server(host)])

\* -------------------------------------------------- parameter validation
\* A variant whose lower bound on limit is 0.
ValidLimit_FromZero(limit) == limit >= 0 /\ limit <= LimitMax

\* Query(50, ge=1, le=100)
ValidLimit(limit) == limit >= LimitMin /\ limit <= LimitMax

\* Query(0, ge=0)
ValidOffset(offset) == offset >= OffsetMin

\* -------------------------------------------------- handlers, pure parts
FilterNames == {"name", "country", "tag", "language"}

\* search_stations: the params mapping; a filter is added when it is truthy.
SearchParams(r) ==
    LET present == { k \in FilterNames : r.filters[k] # "" }
    IN  [ k \in {"limit", "offset", "hidebroken", "order", "reverse"} \cup present |->
            CASE k = "limit" -> r.limit
              [] k = "offset" -> r.offset
              [] k = "hidebroken" -> "true"
              [] k = "order" -> "clickcount"
              [] k = "reverse" -> "true"
              [] OTHER -> r.filters[k] ]

PopularParams(r) ==
    [limit |-> r.limit, hidebroken |-> "true", order |-> "clickcount", reverse |-> "true"]

GenresParams(r) == [limit |-> r.limit, order |-> "stationcount", reverse |-> "true"]

\* params=None
NoParams == <<>>

\* A variant that leaves out the objects validation rejects.
StationListResponse_SkipInvalid(fr) ==
    IF ~fr.ok THEN ErrorResponse(fr.status, fr.detail)
    ELSE LET kept == SelectSeq(fr.json, RadioStationValid)
         IN  OkResponse([ i \in 1..Len(kept) |-> RadioStation(kept[i]) ])

\* return [RadioStation(**station) for station in stations], after the
\* forwarder's result fr: its HTTPException propagates, and so does the
\* ValidationError of the first object the model rejects.
StationListResponse(fr) ==
    IF ~fr.ok THEN ErrorResponse(fr.status, fr.detail)
    ELSE IF \E i \in 1..Len(fr.json) : ~RadioStationValid(fr.json[i])
         THEN InternalServerError
         ELSE OkResponse([ i \in 1..Len(fr.json) |-> RadioStation(fr.json[i]) ])

\* country.get('stationcount', 0)
GetStationCount(obj) ==
    IF "stationcount" \in DOMAIN obj.vals THEN obj.vals["stationcount"] ELSE 0

\* A variant of the filter that keeps the entries with a count of zero.
CountryKept_FromZero(obj) == GetStationCount(obj) >= 0

\* ... if country.get('stationcount', 0) > 0
CountryKept(obj) == GetStationCount(obj) > 0

\* Evaluating the comprehension on one entry raises: the comparison with 0
\* raises on a count that is no number, Country(**country) raises on a kept
\* entry the model rejects.
CountryRaises(obj) ==
    \/ "stationcount" \in obj.bad
    \/ CountryKept(obj) /\ ~CountryValid(obj)

CountriesResponse(fr) ==
    IF ~fr.ok THEN ErrorResponse(fr.status, fr.detail)
    ELSE IF \E i \in 1..Len(fr.json) : CountryRaises(fr.json[i])
         THEN InternalServerError
         ELSE LET kept == SelectSeq(fr.json, CountryKept)
              IN  OkResponse([ i \in 1..Len(kept) |-> Country(kept[i]) ])

GenresResponse(fr) ==
    IF ~fr.ok THEN ErrorResponse(fr.status, fr.detail)
    ELSE IF \E i \in 1..Len(fr.json) : ~GenreValid(fr.json[i])
         THEN InternalServerError
         ELSE OkResponse([ i \in 1..Len(fr.json) |-> Genre(fr.json[i]) ])

\* A variant whose except clause lets an HTTPException through.
ClickResponse_Propagating(fr) ==
    IF fr.ok THEN OkResponse([message |-> "Click registered successfully"])
    ELSE ErrorResponse(fr.status, fr.detail)

\* click_station: try / except Exception around the forwarder.
ClickResponse(fr) ==
    IF fr.ok THEN OkResponse([message |-> "Click registered successfully"])
    ELSE OkResponse([message |-> "Click registration failed",
                     error |-> ToString(fr.status) \o ": " \o fr.detail])

\* A variant without the check for an empty result; stations[0] then raises.
StationDetailResponse_NoCheck(fr) ==
    IF ~fr.ok THEN ErrorResponse(fr.status, fr.detail)
    ELSE IF Len(fr.json) = 0 \/ ~RadioStationValid(fr.json[1]) THEN InternalServerError
    ELSE OkResponse(RadioStation(fr.json[1]))

\* get_station_details
StationDetailResponse(fr) ==
    IF ~fr.ok THEN ErrorResponse(fr.status, fr.detail)
    ELSE IF Len(fr.json) = 0 THEN ErrorResponse(NotFoundStatus, "Station not found")
    ELSE IF ~RadioStationValid(fr.json[1]) THEN InternalServerError
    ELSE OkResponse(RadioStation(fr.json[1]))

\* ------------------------------------------------------------------ state
VARIABLES
    pc,          \* per slot: "idle", "validated", "awaiting", "done"
    req,         \* per slot: the request being served
    calls,       \* per slot: the upstream GETs issued for that request
    outcome,     \* per slot: how the upstream GET ended
    resp,        \* per slot: the response sent to the caller
    nInvoked,    \* radio handler invocations
    nGets,       \* upstream GETs issued
    log,         \* db.status_checks, in insertion order
    nextId,      \* source of fresh identifiers (uuid4)
    clock,       \* datetime.utcnow
    lastOp,      \* the last status operation
    statusResp   \* its response body

vars == << pc, req, calls, outcome, resp, nInvoked, nGets,
           log, nextId, clock, lastOp, statusResp >>

radioVars == << pc, req, calls, outcome, resp, nInvoked, nGets >>
statusVars == << log, nextId, clock, lastOp, statusResp >>

RadioInit ==
    /\ pc = [s \in Slots |-> "idle"]
    /\ req = [s \in Slots |-> NoReq]
    /\ calls = [s \in Slots |-> <<>>]
    /\ outcome = [s \in Slots |-> NoOutcome]
    /\ resp = [s \in Slots |-> NoResp]
    /\ nInvoked = 0
    /\ nGets = 0

\* ---------------------------------------------------------------- actions
\* A request reaches a route: FastAPI validates the Query parameters and
\* either answers 422 or goes on to call the handler.
Arrive(s, r, valid) ==
    /\ pc[s] = "idle"
    /\ nInvoked < MaxInvocations
    /\ req' = [req EXCEPT ![s] = r]
    /\ IF valid
       THEN /\ pc' = [pc EXCEPT ![s] = "validated"]
            /\ resp' = resp
       ELSE /\ pc' = [pc EXCEPT ![s] = "done"]
            /\ resp' = [resp EXCEPT ![s] = ValidationError]
    /\ UNCHANGED << calls, outcome, nInvoked, nGets, statusVars >>

\* The handler runs up to the forwarder's await: one GET to a random server.
Invoke(s, route, endpoint, params) ==
    /\ pc[s] = "validated"
    /\ req[s].route = route
    /\ \E host \in RADIO_BROWSER_SERVERS :
          LET sent == IssueGet(calls[s], host, endpoint, params)
          IN  /\ calls' = [calls EXCEPT ![s] = sent]
              /\ nGets' = nGets + Len(sent) - Len(calls[s])
    /\ nInvoked' = nInvoked + 1
    /\ pc' = [pc EXCEPT ![s] = "awaiting"]
    /\ UNCHANGED << req, outcome, resp, statusVars >>

\* The GET ends with outcome o and the handler runs to its end.
Resume(s, route, o, response) ==
    /\ pc[s] = "awaiting"
    /\ req[s].route = route
    /\ outcome' = [outcome EXCEPT ![s] = o]
    /\ resp' = [resp EXCEPT ![s] = response]
    /\ pc' = [pc EXCEPT ![s] = "done"]
    /\ UNCHANGED << req, calls, nInvoked, nGets, statusVars >>

search_stations_request(s) ==
    \E limit \in LimitInputs, offset \in OffsetInputs, flt \in FilterInputs :
        Arrive(s, [NoReq EXCEPT !.route = "search", !.limit = limit, !.offset = offset,
                                !.filters = flt],
               ValidLimit(limit) /\ ValidOffset(offset))

search_stations(s) ==
    Invoke(s, "search", "/json/stations/search", SearchParams(req[s]))

search_stations_resume(s, bodies) ==
    \E o \in Outcomes(bodies) :
        Resume(s, "search", o, StationListResponse(make_radio_browser_request(o)))

get_popular_stations_request(s) ==
    \E limit \in LimitInputs :
        Arrive(s, [NoReq EXCEPT !.route = "popular", !.limit = limit], ValidLimit(limit))

get_popular_stations(s) ==
    Invoke(s, "popular", "/json/stations/search", PopularParams(req[s]))

get_popular_stations_resume(s, bodies) ==
    \E o \in Outcomes(bodies) :
        Resume(s, "popular", o, StationListResponse(make_radio_browser_request(o)))

get_countries_request(s) ==
    Arrive(s, [NoReq EXCEPT !.route = "countries"], TRUE)

get_countries(s) ==
    Invoke(s, "countries", "/json/countries", NoParams)

get_countries_resume(s, bodies) ==
    \E o \in Outcomes(bodies) :
        Resume(s, "countries", o, CountriesResponse(make_radio_browser_request(o)))

get_genres_request(s) ==
    \E limit \in LimitInputs :
        Arrive(s, [NoReq EXCEPT !.route = "genres", !.limit = limit], ValidLimit(limit))

get_genres(s) ==
    Invoke(s, "genres", "/json/tags", GenresParams(req[s]))

get_genres_resume(s) ==
    \E o \in Outcomes(GenreLists) :
        Resume(s, "genres", o, GenresResponse(make_radio_browser_request(o)))

click_station_request(s) ==
    \E id \in StationIds :
        Arrive(s, [NoReq EXCEPT !.route = "click", !.station_uuid = id], TRUE)

click_station(s) ==
    Invoke(s, "click", "/json/url/" \o req[s].station_uuid, NoParams)

click_station_resume(s) ==
    \E o \in Outcomes(ClickBodies) :
        Resume(s, "click", o, ClickResponse(make_radio_browser_request(o)))

get_station_details_request(s) ==
    \E id \in StationIds :
        Arrive(s, [NoReq EXCEPT !.route = "station", !.station_uuid = id], TRUE)

get_station_details(s) ==
    Invoke(s, "station", "/json/stations/byuuid/" \o req[s].station_uuid, NoParams)

get_station_details_resume(s, bodies) ==
    \E o \in Outcomes(bodies) :
        Resume(s, "station", o, StationDetailResponse(make_radio_browser_request(o)))

\* The response has gone out; the slot serves the next request.
Deliver(s) ==
    /\ pc[s] = "done"
    /\ pc' = [pc EXCEPT ![s] = "idle"]
    /\ req' = [req EXCEPT ![s] = NoReq]
    /\ calls' = [calls EXCEPT ![s] = <<>>]
    /\ outcome' = [outcome EXCEPT ![s] = NoOutcome]
    /\ resp' = [resp EXCEPT ![s] = NoResp]
    /\ UNCHANGED << nInvoked, nGets, statusVars >>

\* ------------------------------------------------------------ status log
\* StatusCheck(**doc): the three declared fields; Mongo's _id (oid) is dropped.
StatusCheck(doc) ==
    [id |-> doc.id, client_name |-> doc.client_name, timestamp |-> doc.timestamp]

\* The collection as earlier runs of the service left it: n documents.
StoredLog(n) ==
    [ i \in 1..n |-> [id |-> i, client_name |-> "probe", timestamp |-> 0, oid |-> i] ]

InitLogLens == {0, ListCap - 1}

StatusInit ==
    /\ log \in { StoredLog(n) : n \in InitLogLens }
    /\ nextId = Len(log) + 1
    /\ clock = 0
    /\ lastOp = "none"
    /\ statusResp = <<>>

\* POST /status: the response is the one new record (kept here as a list of one).
create_status_check(name) ==
    /\ clock < MaxPosts
    /\ LET status_obj == [id |-> nextId, client_name |-> name, timestamp |-> clock + 1]
       IN  /\ log' = Append(log, [id |-> status_obj.id, client_name |-> status_obj.client_name,
                                  timestamp |-> status_obj.timestamp, oid |-> Len(log) + 1])
           /\ statusResp' = << status_obj >>
    /\ nextId' = nextId + 1
    /\ clock' = clock + 1
    /\ lastOp' = "post"
    /\ UNCHANGED radioVars

\* find().to_list(1000)
ToList(docs, length) == SubSeq(docs, 1, Min(Len(docs), length))

\* GET /status
get_status_checks ==
    /\ LET status_checks == ToList(log, ListCap)
       IN  statusResp' = [ i \in 1..Len(status_checks) |-> StatusCheck(status_checks[i]) ]
    /\ lastOp' = "get"
    /\ UNCHANGED << log, nextId, clock, radioVars >>

\* ------------------------------------------------------- specifications
Init ==
    /\ RadioInit
    /\ log = <<>>
    /\ nextId = 1
    /\ clock = 0
    /\ lastOp = "none"
    /\ statusResp = <<>>

\* Requests served concurrently, two at a time.
Next ==
    \E s \in Slots :
        \/ search_stations_request(s)
        \/ search_stations(s)
        \/ search_stations_resume(s, SmallStationLists)
        \/ get_popular_stations_request(s)
        \/ get_popular_stations(s)
        \/ get_popular_stations_resume(s, SmallStationLists)
        \/ get_countries_request(s)
        \/ get_countries(s)
        \/ get_countries_resume(s, SmallCountryLists)
        \/ get_genres_request(s)
        \/ get_genres(s)
        \/ get_genres_resume(s)
        \/ click_station_request(s)
        \/ click_station(s)
        \/ click_station_resume(s)
        \/ get_station_details_request(s)
        \/ get_station_details(s)
        \/ get_station_details_resume(s, SmallStationLists)
        \/ Deliver(s)

Spec == Init /\ [][Next]_vars

\* Requests served one at a time, over every upstream list up to the bounds.
NextReshape ==
    \/ search_stations_request(ReshapeSlot)
    \/ search_stations(ReshapeSlot)
    \/ search_stations_resume(ReshapeSlot, StationLists)
    \/ get_popular_stations_request(ReshapeSlot)
    \/ get_popular_stations(ReshapeSlot)
    \/ get_popular_stations_resume(ReshapeSlot, StationLists)
    \/ get_countries_request(ReshapeSlot)
    \/ get_countries(ReshapeSlot)
    \/ get_countries_resume(ReshapeSlot, CountryLists)
    \/ get_station_details_request(ReshapeSlot)
    \/ get_station_details(ReshapeSlot)
    \/ get_station_details_resume(ReshapeSlot, StationLists)
    \/ Deliver(ReshapeSlot)

SpecReshape == Init /\ [][NextReshape]_vars

\* The status log alone, on a collection that may already hold documents.
NextStatus ==
    \/ \E name \in ClientNames : create_status_check(name)
    \/ get_status_checks

InitStatus == RadioInit /\ StatusInit

SpecStatus == InitStatus /\ [][NextStatus]_vars

\* ================================================================ claims
Done(s, route) == pc[s] = "done" /\ req[s].route = route

LimitedRoutes == {"search", "popular", "genres"}

OutOfBounds(r) ==
    /\ r.route \in LimitedRoutes
    /\ \/ r.limit < 1
       \/ r.limit > 100
       \/ r.route = "search" /\ r.offset < 0

\* C1: whenever the upstream answers with a status S other than 200, the
\* forwarder fails with status S, and every handler except click registration
\* answers its caller with that same status S.
C1_UpstreamStatusMirrored ==
    \A s \in Slots :
        (pc[s] = "done" /\ outcome[s].kind = "status") =>
            /\ make_radio_browser_request(outcome[s]).status = outcome[s].status
            /\ req[s].route # "click" => resp[s].status = outcome[s].status

\* C2: click registration always answers 200 with a message, whatever the
\* station id and the upstream outcome, and the answer has an error field
\* exactly when the forwarder failed.
C2_ClickAlwaysOk ==
    \A s \in Slots :
        Done(s, "click") =>
            /\ resp[s].status = 200
            /\ "message" \in DOMAIN resp[s].body
            /\ ("error" \in DOMAIN resp[s].body) <=> (outcome[s].kind # "ok")

C2_Witness ==
    \E s \in Slots :
        /\ Done(s, "click")
        /\ outcome[s].kind = "status"
        /\ resp[s].status = 200
        /\ "error" \in DOMAIN resp[s].body
        /\ \E t \in Slots : Done(t, "click") /\ outcome[t].kind = "ok"
                            /\ DOMAIN resp[t].body = {"message"}

\* C3: a timeout of the upstream GET fails with 408 and never with 500; a
\* transport failure fails with 500, carrying the underlying message, and
\* never with 408.
C3_TimeoutAndTransportDistinct ==
    \A s \in Slots :
        /\ (pc[s] = "done" /\ outcome[s].kind = "timeout") =>
              IF req[s].route = "click"
              THEN resp[s].body.error = "408: Radio API timeout"
              ELSE resp[s].status = 408 /\ resp[s].detail = "Radio API timeout"
        /\ (pc[s] = "done" /\ outcome[s].kind = "transport") =>
              IF req[s].route = "click"
              THEN resp[s].body.error = "500: Radio API error: " \o outcome[s].msg
              ELSE resp[s].status = 500
                   /\ resp[s].detail = "Radio API error: " \o outcome[s].msg

C3_Witness ==
    \E s, t \in Slots :
        /\ pc[s] = "done" /\ outcome[s].kind = "timeout" /\ resp[s].status = 408
        /\ pc[t] = "done" /\ outcome[t].kind = "transport" /\ resp[t].status = 500

\* C4 as stated: a successful search response is never longer than limit,
\* whatever list the upstream returns.
C4_SearchAtMostLimit ==
    \A s \in Slots :
        (Done(s, "search") /\ resp[s].status = 200) => Len(resp[s].body) <= req[s].limit

\* C4 as amended: for limit in 1..100 and offset >= 0 the handler passes
\* limit and offset to the upstream unchanged, and a successful search
\* response has exactly as many entries as the list the upstream returned;
\* it is no longer than limit whenever that list is.
C4_SearchLengthIsUpstreamLength ==
    \A s \in Slots :
        (Done(s, "search") /\ resp[s].status = 200) =>
            /\ req[s].limit \in 1..100 /\ req[s].offset >= 0
            /\ Len(calls[s]) >= 1
            /\ \A i \in 1..Len(calls[s]) :
                  /\ calls[s][i].params.limit = req[s].limit
                  /\ calls[s][i].params.offset = req[s].offset
            /\ Len(resp[s].body) = Len(outcome[s].body)
            /\ Len(outcome[s].body) <= req[s].limit => Len(resp[s].body) <= req[s].limit

C4_Witness ==
    \E s \in Slots :
        /\ Done(s, "search") /\ resp[s].status = 200
        /\ req[s].limit = 2
        /\ Len(outcome[s].body) = 2
        /\ Len(resp[s].body) = 2

\* C5: a request to search, popular or genres with limit outside 1..100, or
\* to search with a negative offset, is answered with a validation error and
\* no upstream GET is ever issued for it.
C5_RejectedBeforeUpstream ==
    \A s \in Slots :
        OutOfBounds(req[s]) =>
            /\ calls[s] = <<>>
            /\ pc[s] = "done"
            /\ resp[s].status = 422
            /\ outcome[s].kind = "none"

C5_Witness ==
    \E s, t \in Slots :
        /\ Done(s, "search") /\ req[s].limit = 1 /\ req[s].offset = -1
        /\ resp[s].status = 422 /\ calls[s] = <<>>
        /\ Done(t, "genres") /\ req[t].limit = 101
        /\ resp[t].status = 422 /\ calls[t] = <<>>
        /\ nGets = 1

\* C6: every record a completed POST status has inserted, with its id and
\* client_name, is in the list a later GET status returns.
C6_GetReturnsEveryRecord ==
    lastOp = "get" =>
        \A i \in 1..Len(log) :
            \E j \in 1..Len(statusResp) :
                /\ statusResp[j].id = log[i].id
                /\ statusResp[j].client_name = log[i].client_name

\* C7 as stated: station lookup answers 404 when the upstream returns an
\* empty list, and one station record built from the first element whenever
\* the upstream returns a non-empty list.
C7_NotFoundOrFirstStation ==
    \A s \in Slots :
        (Done(s, "station") /\ outcome[s].kind = "ok") =>
            IF Len(outcome[s].body) = 0
            THEN resp[s].status = 404
            ELSE /\ resp[s].status = 200
                 /\ \A f \in StationFields \cap DOMAIN outcome[s].body[1].vals :
                       resp[s].body[f] = outcome[s].body[1].vals[f]

\* Every declared field the object has carries a value of the declared type,
\* and stationuuid, name and url are among them.
Acceptable(obj) ==
    /\ {"stationuuid", "name", "url"} \subseteq DOMAIN obj.vals
    /\ obj.bad = {}

\* C7 as amended: station lookup answers 404, and nothing else, when the
\* upstream returns an empty list; when it returns a non-empty list whose
\* first element has stationuuid, name and url and only values of the
\* declared types, the handler returns one station record built from that
\* element; when the first element is not such an object the request fails
\* with status 500.
C7_NotFoundOrFirstAcceptableStation ==
    \A s \in Slots :
        (Done(s, "station") /\ outcome[s].kind = "ok") =>
            IF Len(outcome[s].body) = 0
            THEN resp[s].status = 404
            ELSE IF Acceptable(outcome[s].body[1])
                 THEN /\ resp[s].status = 200
                      /\ DOMAIN resp[s].body = StationFields
                      /\ \A f \in StationFields \cap DOMAIN outcome[s].body[1].vals :
                            resp[s].body[f] = outcome[s].body[1].vals[f]
                 ELSE resp[s].status = 500

C7_Witness ==
    \E s \in Slots :
        /\ Done(s, "station")
        /\ outcome[s].kind = "ok"
        /\ outcome[s].body = <<>>
        /\ resp[s].status = 404

\* C8: every entry of a successful countries response has stationcount > 0,
\* and the upstream entries with stationcount > 0 are all in the response,
\* in upstream order.
C8_CountriesPositiveInOrder ==
    \A s \in Slots :
        (Done(s, "countries") /\ resp[s].status = 200) =>
            LET up == outcome[s].body
                pos == { i \in 1..Len(up) :
                            /\ "stationcount" \in DOMAIN up[i].vals
                            /\ up[i].vals.stationcount > 0 }
                rank(i) == Cardinality({ j \in pos : j <= i })
            IN  /\ \A k \in 1..Len(resp[s].body) : resp[s].body[k].stationcount > 0
                /\ Len(resp[s].body) = Cardinality(pos)
                /\ \A i \in pos :
                      /\ resp[s].body[rank(i)].name = up[i].vals.name
                      /\ resp[s].body[rank(i)].iso_3166_1 = up[i].vals.iso_3166_1
                      /\ resp[s].body[rank(i)].stationcount = up[i].vals.stationcount

C8_Witness ==
    \E s \in Slots :
        /\ Done(s, "countries") /\ resp[s].status = 200
        /\ Len(outcome[s].body) = 2
        /\ "stationcount" \in DOMAIN outcome[s].body[1].vals
        /\ outcome[s].body[1].vals.stationcount = 0
        /\ "stationcount" \in DOMAIN outcome[s].body[2].vals
        /\ outcome[s].body[2].vals.stationcount = 2
        /\ Len(resp[s].body) = 1
        /\ resp[s].body[1].stationcount = 2

\* C9: every handler invocation that passed validation issues exactly one
\* upstream GET, to one of the three mirrors: one even when an identical
\* query is in flight, and no second one after a failure; the number of GETs
\* equals the number of handler invocations.
C9_OneGetPerInvocation ==
    /\ nGets = nInvoked
    /\ \A s \in Slots :
          /\ Len(calls[s]) <= 1
          /\ \A i \in 1..Len(calls[s]) :
                \E h \in { "de1.api.radio-browser.info", "nl1.api.radio-browser.info",
                           "at1.api.radio-browser.info" } :
                    calls[s][i].server = "https://" \o h
          /\ pc[s] = "awaiting" => Len(calls[s]) = 1
          /\ (pc[s] = "done" /\ ~OutOfBounds(req[s])) => Len(calls[s]) = 1
          /\ pc[s] \in {"idle", "validated"} => Len(calls[s]) = 0

C9_Witness ==
    \E s, t \in Slots :
        /\ s # t
        /\ req[s] = req[t]
        /\ req[s].route = "popular"
        /\ pc[s] = "done" /\ outcome[s].kind = "transport"
        /\ pc[t] = "awaiting"
        /\ Len(calls[s]) = 1 /\ Len(calls[t]) = 1
        /\ nGets = 2 /\ nInvoked = 2

\* C10 as stated: when the forwarder succeeds, search and popular answer with
\* one station record per upstream object, in order, whichever fields the
\* objects lack.
C10_EveryObjectReshaped ==
    \A s \in Slots :
        ((Done(s, "search") \/ Done(s, "popular")) /\ outcome[s].kind = "ok") =>
            /\ resp[s].status = 200
            /\ Len(resp[s].body) = Len(outcome[s].body)

\* C10 as amended: when the forwarder succeeds and every upstream object has
\* stationuuid, name and url and only values of the declared types, search
\* and popular answer with one station record per upstream object, in order:
\* unknown upstream fields are dropped and every absent optional field takes
\* its default; an upstream object that lacks stationuuid, name or url makes
\* the request fail with status 500.
C10_AcceptableObjectsReshaped ==
    \A s \in Slots :
        ((Done(s, "search") \/ Done(s, "popular")) /\ outcome[s].kind = "ok") =>
            LET up == outcome[s].body
            IN  IF \A i \in 1..Len(up) : Acceptable(up[i])
                THEN /\ resp[s].status = 200
                     /\ Len(resp[s].body) = Len(up)
                     /\ \A i \in 1..Len(up) :
                           /\ DOMAIN resp[s].body[i] = StationFields
                           /\ \A f \in StationFields :
                                 resp[s].body[i][f] =
                                     IF f \in DOMAIN up[i].vals THEN up[i].vals[f]
                                     ELSE StationDefaults[f]
                           /\ "votes" \notin DOMAIN up[i].vals => resp[s].body[i].votes = 0
                           /\ "lastcheckok" \notin DOMAIN up[i].vals =>
                                 resp[s].body[i].lastcheckok = 1
                           /\ "homepage" \notin DOMAIN up[i].vals =>
                                 resp[s].body[i].homepage = "None"
                ELSE resp[s].status = 500

C10_Witness ==
    \E s \in Slots :
        /\ Done(s, "popular") /\ resp[s].status = 200
        /\ Len(outcome[s].body) = 2
        /\ "changeuuid" \in DOMAIN outcome[s].body[1].vals
        /\ "votes" \notin DOMAIN outcome[s].body[2].vals
        /\ resp[s].body[1].stationuuid = "uuid-a"
        /\ resp[s].body[2].stationuuid = "uuid-b"
        /\ resp[s].body[2].votes = 0
        /\ resp[s].body[2].lastcheckok = 1

====
